---- MODULE Spec2Model ----
(***************************************************************************)
(* A model of the stage2 "ai-coder" REPL (src/stage2/coder.js): the        *)
(* streaming request client streamLLM, the response parser                 *)
(* parseAndUpdateFiles, the file synchronisation and commit sequence of    *)
(* createCommit, and the REPL session of startReplSession.                 *)
(*                                                                         *)
(* Text is a sequence of lines (the text is the lines joined by "\n"), so  *)
(* a text ending in "\n" has "" as its last line.  The specifications of   *)
(* the module share its variables:                                         *)
(*   Spec        the REPL session: input lines, SIGINT, network events of  *)
(*               the requests in flight and the steps of the commit        *)
(*               sequence;                                                 *)
(*   SpecRun     the same session with one request and one /run command;   *)
(*   SpecLive    SpecRun with fairness of the network and subprocess       *)
(*               steps;                                                    *)
(*   SpecStream  the frame loop of streamLLM over a wire stream cut into   *)
(*               arbitrary network chunks;                                 *)
(*   SpecParse   parseAndUpdateFiles over bounded response texts;          *)
(*   SpecSync    the file update loop of createCommit, run twice;          *)
(*   SpecFiles   the active file list under /add and /drop, and the file   *)
(*               context read from it;                                     *)
(*   SpecClient  the LLMClient variant: the currentRequest field under     *)
(*               queries, responses, errors and abort.                     *)
(***************************************************************************)
EXTENDS Integers, Sequences, FiniteSets, TLC

\* ------------------------------------------------------------------ bounds
\* Requests (REPL turns that send a model request) per session.
MaxRequests == 2

\* /run commands, and requests, per session with /run commands.
MaxRuns == 1
MaxRunRequests == 1

\* ------------------------------------------------------- response parsing
\* A backtick cannot be written in a string of this language: "[fence]"
\* stands for the three backticks of a fence delimiter, so the line "[fence]"
\* is a bare delimiter and "[fence]js" a delimiter followed by a language tag.
Fence == "[fence]"
TaggedFence == "[fence]js"

\* A line that begins with three backticks, bare or followed by a tag.
StartsWithFence(line) == line \in {Fence, TaggedFence}

\* String.prototype.trim on the lines of the alphabet of the model.
Trim(line) ==
  CASE line = " " -> ""
    [] line = " b.py" -> "b.py"
    [] OTHER -> line

\* The lazy content group and the closing fence: the first line at or after
\* j that begins with three backticks; 0 when there is none.
RECURSIVE CloserFrom(_, _)
CloserFrom(lines, j) ==
  IF j > Len(lines) THEN 0
  ELSE IF StartsWithFence(lines[j]) THEN j
  ELSE CloserFrom(lines, j + 1)

\* filePattern as it would be if the end of the text could stand for the
\* closing fence.
MatchAtOpenEnded(lines, i) ==
  IF /\ i + 2 <= Len(lines)
     /\ lines[i] # ""
     /\ lines[i + 1] = Fence
  THEN (IF CloserFrom(lines, i + 3) = 0 THEN Len(lines) + 1
        ELSE CloserFrom(lines, i + 3))
  ELSE 0

\* filePattern tried at the start of line i: line i has at least one
\* character, line i+1 is exactly three backticks and is followed by a line
\* break, and a line beginning with three backticks follows at i+3 or later.
\* The index of that closing line, 0 when the pattern does not match at i.
MatchAt(lines, i) ==
  IF /\ i + 2 <= Len(lines)
     /\ lines[i] # ""
     /\ lines[i + 1] = Fence
  THEN CloserFrom(lines, i + 3)
  ELSE 0

\* The while ((match = filePattern.exec(response)) !== null) loop: after a
\* match the search resumes inside the closing line, so the next line start
\* is the line after it.
RECURSIVE ExecFrom(_, _)
ExecFrom(lines, i) ==
  IF i > Len(lines) THEN <<>>
  ELSE LET j == MatchAt(lines, i) IN
       IF j = 0 THEN ExecFrom(lines, i + 1)
       ELSE <<[filename |-> Trim(lines[i]),
               content |-> SubSeq(lines, i + 2, j - 1)]>>
            \o ExecFrom(lines, j + 1)

parseAndUpdateFiles(response) == ExecFrom(response, 1)

\* --------------------------------------------------- file synchronisation
\* The disk is a function from the paths of the files that exist to their
\* content.  A directory exists when it is the working directory or holds a
\* file.
Dirname(path) == IF path = "sub/c.txt" THEN "sub" ELSE "."

DirExists(d, dir) == dir = "." \/ \E p \in DOMAIN d : Dirname(p) = dir

\* fs.writeFileSync with a write that drops every other file.
WriteFileAlone(d, path, content) == [q \in {path} |-> content]

\* fs.writeFileSync: the whole file is replaced, the others are untouched.
WriteFile(d, path, content) ==
  [q \in (DOMAIN d) \cup {path} |-> IF q = path THEN content ELSE d[q]]

\* The test of the loop as it would be if only missing files were written.
NeedsWriteOnlyIfMissing(update, d) == update.filename \notin DOMAIN d

\* The test of the loop as it would be if every update were written.
NeedsWriteAlways(update, d) == TRUE

\* if (!fileExists || oldContent !== update.content)
NeedsWrite(update, d) ==
  update.filename \notin DOMAIN d \/ d[update.filename] # update.content

\* changedFiles.push as it would be if a path were recorded only once.
PushChangedOnce(changed, filename) ==
  IF \E k \in 1..Len(changed) : changed[k] = filename THEN changed
  ELSE Append(changed, filename)

\* changedFiles.push(update.filename)
PushChanged(changed, filename) == Append(changed, filename)

\* What the file system does to one iteration of the loop:
\*   none      every call succeeds
\*   read      fs.readFileSync throws (only when the file exists)
\*   write     fs.mkdirSync or fs.writeFileSync throws before the file is
\*             opened: nothing is changed
\*   truncate  fs.writeFileSync throws after the file was opened for
\*             writing: the file is left empty
Faults == {"none", "read", "write", "truncate"}

\* One iteration of the Update files loop with its try and catch.  entry is
\* the observation of what the iteration did.
UpdateFile(update, d, changed, fault) ==
  LET fileExists == update.filename \in DOMAIN d
      entry == [filename |-> update.filename,
                content |-> update.content,
                fileExists |-> fileExists,
                identical |-> fileExists /\ d[update.filename] = update.content,
                mkdir |-> FALSE, wrote |-> FALSE, report |-> "error"]
  IN IF fileExists /\ fault = "read"
     THEN [disk |-> d, changedFiles |-> changed, entry |-> entry]
     ELSE IF NeedsWrite(update, d)
     THEN LET mkdir == ~DirExists(d, Dirname(update.filename))
          IN CASE fault = "write" ->
                    [disk |-> d, changedFiles |-> changed, entry |-> entry]
               [] fault = "truncate" ->
                    [disk |-> WriteFile(d, update.filename, <<>>),
                     changedFiles |-> changed,
                     entry |-> [entry EXCEPT !.mkdir = mkdir]]
               [] OTHER ->
                    [disk |-> WriteFile(d, update.filename, update.content),
                     changedFiles |-> PushChanged(changed, update.filename),
                     entry |-> [entry EXCEPT
                                  !.mkdir = mkdir, !.wrote = TRUE,
                                  !.report = IF fileExists THEN "Updated"
                                             ELSE "Created"]]
     ELSE [disk |-> d, changedFiles |-> changed,
           entry |-> [entry EXCEPT !.report = "No changes"]]

\* The loop as it would be if the first error ended it.
RECURSIVE ApplyUpdatesStopsOnError(_, _, _, _)
ApplyUpdatesStopsOnError(updates, d, changed, faults) ==
  IF updates = <<>> THEN [disk |-> d, changedFiles |-> changed, log |-> <<>>]
  ELSE LET one == UpdateFile(Head(updates), d, changed, Head(faults))
           rest == IF one.entry.report = "error"
                   THEN [disk |-> one.disk, changedFiles |-> one.changedFiles,
                         log |-> <<>>]
                   ELSE ApplyUpdatesStopsOnError(Tail(updates), one.disk,
                                                 one.changedFiles, Tail(faults))
       IN [rest EXCEPT !.log = <<one.entry>> \o @]

\* The Update files loop of the completion handler of createCommit; faults
\* has one entry for each update.
RECURSIVE ApplyUpdates(_, _, _, _)
ApplyUpdates(updates, d, changed, faults) ==
  IF updates = <<>> THEN [disk |-> d, changedFiles |-> changed, log |-> <<>>]
  ELSE LET one == UpdateFile(Head(updates), d, changed, Head(faults))
           rest == ApplyUpdates(Tail(updates), one.disk, one.changedFiles,
                                Tail(faults))
       IN [rest EXCEPT !.log = <<one.entry>> \o @]

\* Flattens a sequence of sequences.
RECURSIVE Concat(_)
Concat(ss) == IF ss = <<>> THEN <<>> ELSE Head(ss) \o Concat(Tail(ss))

\* ----------------------------------------------------------- file context
\* The lines readFiles adds for a file it could read: the name, the file's
\* data between two fences, and a blank line.
FileBlock(file, data) == <<file, Fence>> \o data \o <<Fence, "">>

RECURSIVE DropLeadingBlank(_)
DropLeadingBlank(lines) ==
  IF lines # <<>> /\ Trim(Head(lines)) = ""
  THEN DropLeadingBlank(Tail(lines)) ELSE lines

RECURSIVE DropTrailingBlank(_)
DropTrailingBlank(lines) ==
  IF lines # <<>> /\ Trim(lines[Len(lines)]) = ""
  THEN DropTrailingBlank(SubSeq(lines, 1, Len(lines) - 1)) ELSE lines

\* content.trim() on a text of whole lines.
TrimText(lines) == DropTrailingBlank(DropLeadingBlank(lines))

\* What the file system does to the read of one file.
ReadFaults == {"none", "read"}

\* The loop of readFiles as it would be if the first file it cannot read
\* ended it.
RECURSIVE ReadLoopStopsOnError(_, _, _)
ReadLoopStopsOnError(fileList, d, faults) ==
  IF fileList = <<>> THEN [content |-> <<>>, report |-> <<>>]
  ELSE LET file == Head(fileList)
           rest == ReadLoopStopsOnError(Tail(fileList), d, Tail(faults))
       IN IF file \notin DOMAIN d
          THEN [content |-> <<>>,
                report |-> <<[file |-> file, kind |-> "not found"]>>]
          ELSE IF Head(faults) = "read"
          THEN [content |-> <<>>,
                report |-> <<[file |-> file, kind |-> "error reading"]>>]
          ELSE [rest EXCEPT !.content = FileBlock(file, d[file]) \o @]

\* The for loop of readFiles: a file that does not exist gets a warning, a
\* read that throws is caught and reported, and the loop goes on.
RECURSIVE ReadLoop(_, _, _)
ReadLoop(fileList, d, faults) ==
  IF fileList = <<>> THEN [content |-> <<>>, report |-> <<>>]
  ELSE LET file == Head(fileList)
           rest == ReadLoop(Tail(fileList), d, Tail(faults))
       IN IF file \notin DOMAIN d
          THEN [rest EXCEPT
                  !.report = <<[file |-> file, kind |-> "not found"]>> \o @]
          ELSE IF Head(faults) = "read"
          THEN [rest EXCEPT
                  !.report = <<[file |-> file, kind |-> "error reading"]>> \o @]
          ELSE [rest EXCEPT !.content = FileBlock(file, d[file]) \o @]

\* readFiles(fileList): the blocks of the files read, trimmed.
readFiles(fileList, d, faults) ==
  LET r == ReadLoop(fileList, d, faults)
  IN [r EXCEPT !.content = TrimText(@)]

\* Array.prototype.includes.
Includes(list, x) == \E k \in 1..Len(list) : list[k] = x

\* Array.prototype.indexOf, counted from 1; 0 when x is not in the list.
IndexOf(list, x) ==
  IF Includes(list, x)
  THEN CHOOSE k \in 1..Len(list) :
         list[k] = x /\ \A j \in 1..(k - 1) : list[j] # x
  ELSE 0

\* list.splice(k - 1, 1): the list without its k-th entry.
Splice(list, k) == SubSeq(list, 1, k - 1) \o SubSeq(list, k + 1, Len(list))

\* ------------------------------------------------------------ REPL session
VARIABLES
  running,              \* the process has not exited
  isProcessing,         \* startReplSession.isProcessing
  conversationHistory,  \* startReplSession.conversationHistory
  requests,             \* the streamLLM calls made so far, in order
  sigintHandlers,       \* the listeners of process SIGINT, in order
  disk,                 \* the working tree: existing path -> content
  commits,              \* number of git commits created
  shell,                \* the /run commands started, and whether one runs
  limits,               \* the part of the session explored: how many
                        \* requests and /run commands it may start
  turnStart,            \* observation: the history when each turn began
  ev                    \* observation: what the last step was and did

sessionVars == <<running, isProcessing, conversationHistory, requests,
                 sigintHandlers, disk, commits, shell, limits, turnStart, ev>>

\* The frame loop of streamLLM (SpecStream).
VARIABLES
  frames,               \* observation: the event frames the server sends
  wire,                 \* the part of the wire stream not yet received
  accumulated,          \* streamLLM.accumulatedResponse
  delivered,            \* the fragments passed to onData, in order
  completed,            \* res.on("end") has called onComplete
  fullResponse,         \* the argument onComplete was called with
  split                 \* observation: a chunk ended inside a line

streamVars == <<frames, wire, accumulated, delivered, completed, fullResponse,
                split>>

\* parseAndUpdateFiles (SpecParse).
VARIABLES
  segments,             \* observation: how the response text was built
  responseText,         \* the response text, as lines
  parsedUpdates,        \* what parseAndUpdateFiles returned
  parsed                \* parseAndUpdateFiles has returned

parseVars == <<segments, responseText, parsedUpdates, parsed>>

\* The Update files loop of createCommit (SpecSync).
VARIABLES
  syncBlocks,           \* observation: the blocks of the response
  syncUpdates,          \* what parseAndUpdateFiles returned for them
  syncStart,            \* observation: the disk before the loop
  syncDisk,             \* the disk
  syncChanged,          \* createCommit.changedFiles
  syncLog,              \* observation: what each iteration did
  syncDone,             \* the loop has ended
  syncFirst             \* observation: what an earlier pass over the
                        \* same updates did, when there was one

syncVars == <<syncBlocks, syncUpdates, syncStart, syncDisk, syncChanged,
              syncLog, syncDone, syncFirst>>

NoSyncFirst == [done |-> FALSE, clean |-> FALSE, wrote |-> {}]

\* The file context of the session and the commands on it (SpecFiles).
VARIABLES
  activeFiles,          \* startReplSession.activeFiles
  fileEv                \* observation: the last file command and its result

fileVars == <<activeFiles, fileEv>>

\* The LLMClient variant of the REPL (SpecClient).
VARIABLES
  clientRequests,       \* the requests makeRequest has made, in order
  currentRequest,       \* LLMClient.currentRequest: 0 for null, or the
                        \* position of the request it refers to
  sessionHistory,       \* REPLSession.history
  clientEv              \* observation: the last step, the requests in
                        \* flight before it and those it destroyed

clientVars == <<clientRequests, currentRequest, sessionHistory, clientEv>>

vars == <<sessionVars, streamVars, parseVars, syncVars, fileVars, clientVars>>

NoClientEv == [type |-> "none", pending |-> {}, destroyed |-> {}]

ClientIdle ==
  /\ clientRequests = <<>>
  /\ currentRequest = 0
  /\ sessionHistory = <<>>
  /\ clientEv = NoClientEv

NoFileEv ==
  [type |-> "none", arg |-> "", before |-> <<>>, report |-> "",
   content |-> <<>>, warnings |-> <<>>, faults |-> <<>>, n |-> 0]

FilesIdle ==
  /\ activeFiles = <<>>
  /\ fileEv = NoFileEv

\* The variables of the other specifications keep these values.
SyncIdle ==
  /\ syncBlocks = <<>>
  /\ syncUpdates = <<>>
  /\ syncStart = <<>>
  /\ syncDisk = <<>>
  /\ syncChanged = <<>>
  /\ syncLog = <<>>
  /\ syncDone = FALSE
  /\ syncFirst = NoSyncFirst

StreamIdle ==
  /\ frames = <<>>
  /\ wire = <<>>
  /\ accumulated = <<>>
  /\ delivered = <<>>
  /\ completed = FALSE
  /\ fullResponse = <<>>
  /\ split = FALSE

ParseIdle ==
  /\ segments = <<>>
  /\ responseText = <<>>
  /\ parsedUpdates = <<>>
  /\ parsed = FALSE

\* What the model replies, as the content fragments of the stream; every
\* fragment is a run of whole lines.  A reply without a block, a reply that
\* repeats the content a.txt already has, and a reply that changes a.txt and
\* creates b.txt.
Responses ==
  << << <<"Fixed">>, <<"the bug">> >>,
     << <<"a.txt", Fence, "x", Fence>> >>,
     << <<"a.txt", Fence, "z", Fence, "b.txt", Fence, "y", Fence>> >> >>

\* What the file system does to each update of a reply: one fault for each
\* of the blocks of the longest reply.
ReplyFaults == [1..2 -> Faults]

\* The text the n-th dispatched line carries.
Prompts == <<"p1", "p2", "p3", "p4">>

\* The closure state of one streamLLM call and of the turn that made it.
\*   kind            "msg" (processMessage) or "commit" (createCommit)
\*   net             sent: no response yet; streaming: response callback ran;
\*                   ended / failed: the stream ended or errored
\*   currentRequest  streamLLM.currentRequest is set (not null)
\*   aborted         streamLLM.aborted
\*   isCancelled     the isCancelled flag of the turn
\*   pos             fragments the network has delivered
\*   accN            fragments in accumulatedResponse
\*   pc              the await the completion handler of createCommit is at
\*   changedFiles    createCommit.changedFiles once the files are updated
\*   addIdx          the entry of changedFiles the git add loop is at
\*   written         observation: the paths this turn has written to disk
\*   summary         what generateCommitMessage returned
NewRequest(kind, script) ==
  [kind |-> kind, net |-> "sent", currentRequest |-> FALSE, aborted |-> FALSE,
   isCancelled |-> FALSE, script |-> script, pos |-> 0, accN |-> 0,
   pc |-> "none", changedFiles |-> <<>>, addIdx |-> 0, written |-> {},
   summary |-> ""]

\* streamLLM.accumulatedResponse.
accumulatedResponse(q) == Concat(SubSeq(Responses[q.script], 1, q.accN))

\* A request that has neither completed, failed nor been cancelled.
InFlight(q) == q.net \in {"sent", "streaming"} /\ ~q.isCancelled /\ ~q.aborted

Busy == \E r \in 1..Len(requests) : InFlight(requests[r])

NoEv ==
  [type |-> "init", req |-> 0, busy |-> FALSE, report |-> {}, wrote |-> FALSE,
   ran |-> FALSE, dispatched |-> FALSE, cancelled |-> {}, path |-> "",
   input |-> <<>>, sub |-> FALSE]

SessionInit ==
  /\ running = TRUE
  /\ isProcessing = FALSE
  /\ conversationHistory = <<>>
  /\ requests = <<>>
  /\ sigintHandlers = <<>>
  /\ disk = [p \in {"a.txt"} |-> <<"x">>]
  /\ commits = 0
  /\ shell = [started |-> 0, busy |-> FALSE]
  /\ limits = [requests |-> MaxRequests, runs |-> 0]
  /\ turnStart = <<>>
  /\ ev = NoEv

\* conversationHistory.push as it would be if it added at the front.
UnshiftMessage(history, message) == <<message>> \o history

\* conversationHistory.push(message)
PushMessage(history, message) == Append(history, message)

\* const messages = [{ role: "system", content: SYSTEM_PROMPT_CODE },
\*                   ...conversationHistory]
processMessageMessages(history) ==
  <<[role |-> "system", content |-> <<"SYSTEM_PROMPT_CODE">>]>> \o history

\* The messages createCommit sends: the commit system prompt and the request.
createCommitMessages(userPrompt) ==
  <<[role |-> "system", content |-> <<"SYSTEM_PROMPT_COMMIT">>],
    [role |-> "user", content |-> userPrompt]>>

\* filesContent of processMessage and processCommit: readFiles(activeFiles)
\* when there are active files; the reads of a session do not fail.
filesContent ==
  IF activeFiles = <<>> THEN <<>>
  ELSE readFiles(activeFiles, disk,
                 [k \in 1..Len(activeFiles) |-> "none"]).content

\* userMessage of processMessage: the prompt, then the file context if any.
processMessageUserMessage(prompt, fc) ==
  IF fc # <<>> THEN <<prompt, "", "Current files:">> \o fc ELSE <<prompt>>

\* userMessage of processCommit.
processCommitUserMessage(prompt, fc) ==
  <<"Make the following changes:", prompt, "">>
    \o (IF fc # <<>> THEN <<"Current files:">> \o fc ELSE <<"">>)

\* processMessage up to its return: the user message is pushed, the request
\* is sent and the SIGINT listener is registered with process.once.
processMessage(prompt, script) ==
  /\ conversationHistory' =
       PushMessage(conversationHistory,
                   [role |-> "user",
                    content |-> processMessageUserMessage(prompt,
                                                          filesContent)])
  /\ requests' = Append(requests, NewRequest("msg", script))
  /\ sigintHandlers' =
       Append(sigintHandlers, [kind |-> "msg", req |-> Len(requests) + 1])
  /\ isProcessing' = TRUE

\* processCommit: createCommit returns as soon as the request is sent, so the
\* two messages are pushed and isProcessing is reset in the same turn of the
\* event loop.
processCommit(prompt, script) ==
  /\ requests' = Append(requests, NewRequest("commit", script))
  /\ sigintHandlers' =
       Append(sigintHandlers, [kind |-> "commit", req |-> Len(requests) + 1])
  /\ conversationHistory' =
       PushMessage(
         PushMessage(conversationHistory,
                     [role |-> "user",
                      content |-> <<"Please make the following code changes: ",
                                    prompt>>]),
         [role |-> "assistant",
          content |-> <<"I have committed the changes you requested.">>])
  /\ isProcessing' = FALSE

\* A git subprocess of a commit turn, or the subprocess of /run, is running.
SubprocessRunning ==
  \/ shell.busy
  \/ \E r \in 1..Len(requests) : requests[r].pc \in {"diff", "add", "commit"}

\* The command the n-th /run line carries.
Commands == <<"c1", "c2">>

\* rl.on("line"): a plain message, a /commit command or a /run command.
\* /run sets isProcessing and awaits runCommand, which starts the subprocess.
RlOnLine(input, script) ==
  /\ UNCHANGED <<streamVars, parseVars, syncVars, fileVars, clientVars, limits>>
  /\ running
  /\ input \in {"msg", "commit"} =>
        (isProcessing \/ Len(requests) < limits.requests)
  /\ input = "run" => (isProcessing \/ shell.started < limits.runs)
  /\ input \in {"msg", "run"} => script = 1
  /\ IF isProcessing
     THEN /\ ev' = [NoEv EXCEPT !.type = "line", !.busy = Busy,
                                !.sub = SubprocessRunning,
                                !.report = {"please wait"}]
          /\ UNCHANGED <<isProcessing, conversationHistory, requests,
                         sigintHandlers, turnStart, shell>>
     ELSE IF input = "run"
     THEN /\ isProcessing' = TRUE
          /\ shell' = [started |-> shell.started + 1, busy |-> TRUE]
          /\ ev' = [NoEv EXCEPT !.type = "line", !.busy = Busy,
                                !.sub = SubprocessRunning,
                                !.dispatched = TRUE]
          /\ UNCHANGED <<conversationHistory, requests, sigintHandlers,
                         turnStart>>
     ELSE /\ IF input = "commit"
             THEN processCommit(Prompts[Len(requests) + 1], script)
             ELSE processMessage(Prompts[Len(requests) + 1], script)
          /\ turnStart' = Append(turnStart, conversationHistory)
          /\ ev' = [NoEv EXCEPT
                      !.type = "line", !.busy = Busy,
                      !.sub = SubprocessRunning,
                      !.req = Len(requests) + 1,
                      !.dispatched = TRUE,
                      !.input =
                         IF input = "commit"
                         THEN createCommitMessages(
                                processCommitUserMessage(
                                  Prompts[Len(requests) + 1], filesContent))
                         ELSE processMessageMessages(conversationHistory')]
          /\ UNCHANGED shell
  /\ UNCHANGED <<running, disk, commits>>

\* The message runCommand adds: the command with the output of the
\* subprocess, or with the message of the error when it failed.
runCommandMessage(cmd, ok) ==
  [role |-> "user",
   content |-> IF ok
               THEN <<"I ran this command: ", cmd, "Output:", "stdout">>
               ELSE <<"I ran this command: ", cmd,
                      "The command failed with error:", "error.message">>]

\* runCommand as it would be if a failed command left no message.
runCommandOnSuccessOnly(history, cmd, ok) ==
  IF ok THEN PushMessage(history, runCommandMessage(cmd, ok)) ELSE history

\* runCommand: one push in the try block, one in the catch block.
runCommand(history, cmd, ok) ==
  PushMessage(history, runCommandMessage(cmd, ok))

\* The subprocess of /run exits: runCommand pushes the command with its
\* output, or with the error, and the line handler resets isProcessing.
RunExit(ok) ==
  /\ UNCHANGED <<streamVars, parseVars, syncVars, fileVars, clientVars, limits>>
  /\ running
  /\ shell.busy
  /\ shell' = [shell EXCEPT !.busy = FALSE]
  /\ conversationHistory' =
       runCommand(conversationHistory, Commands[shell.started], ok)
  /\ isProcessing' = FALSE
  /\ ev' = [NoEv EXCEPT !.type = "run exit",
                        !.report = IF ok THEN {} ELSE {"command failed"}]
  /\ UNCHANGED <<running, requests, sigintHandlers, disk, commits, turnStart>>

\* The abort function streamLLM returns.
abortRequest(q) ==
  IF q.currentRequest /\ ~q.aborted THEN [q EXCEPT !.aborted = TRUE] ELSE q

\* processMessage.onSigInt, on the state s the earlier listeners left.
processMessageOnSigInt(r, s) ==
  IF s.isProcessing
  THEN [s EXCEPT !.requests[r] = abortRequest([@ EXCEPT !.isCancelled = TRUE]),
                 !.report = @ \cup {"cancelled"},
                 !.cancelled = @ \cup {r},
                 !.isProcessing = FALSE]
  ELSE [s EXCEPT !.running = FALSE]

\* createCommit.onSigInt.
createCommitOnSigInt(r, s) ==
  [s EXCEPT !.requests[r] = abortRequest([@ EXCEPT !.isCancelled = TRUE]),
            !.report = @ \cup {"cancelled"},
            !.cancelled = @ \cup {r}]

\* process.emit("SIGINT"): the listeners registered at the time of the signal
\* run in registration order; rl.close() exits the process at once.
RECURSIVE EmitSigInt(_, _)
EmitSigInt(hs, s) ==
  IF hs = <<>> \/ ~s.running THEN [s EXCEPT !.left = hs]
  ELSE EmitSigInt(Tail(hs),
                  IF Head(hs).kind = "msg"
                  THEN processMessageOnSigInt(Head(hs).req, s)
                  ELSE createCommitOnSigInt(Head(hs).req, s))

\* SIGINT is delivered to the process.  Without a listener the default
\* action ends the process.  A listener that ran is no longer registered
\* (process.once, or its own removeListener).
SigInt ==
  /\ UNCHANGED <<streamVars, parseVars, syncVars, fileVars, clientVars,
                 shell, limits>>
  /\ running
  /\ LET s == EmitSigInt(sigintHandlers,
                         [running |-> sigintHandlers # <<>>,
                          isProcessing |-> isProcessing,
                          requests |-> requests,
                          report |-> {}, cancelled |-> {}, left |-> <<>>])
     IN /\ running' = s.running
        /\ isProcessing' = s.isProcessing
        /\ requests' = s.requests
        /\ sigintHandlers' = s.left
        /\ ev' = [NoEv EXCEPT !.type = "sigint", !.busy = Busy,
                              !.report = s.report,
                              !.cancelled =
                                 {r \in s.cancelled : InFlight(requests[r])}]
  /\ UNCHANGED <<conversationHistory, disk, commits, turnStart>>

\* https.request response callback: currentRequest = req.
ResOnResponse(r) ==
  /\ UNCHANGED <<streamVars, parseVars, syncVars, fileVars, clientVars,
                 shell, limits>>
  /\ running
  /\ r \in 1..Len(requests)
  /\ requests[r].net = "sent"
  /\ requests' = [requests EXCEPT ![r].net = "streaming",
                                  ![r].currentRequest = TRUE]
  /\ ev' = [NoEv EXCEPT !.type = "response", !.req = r]
  /\ UNCHANGED <<running, isProcessing, conversationHistory, sigintHandlers,
                 disk, commits, turnStart>>

\* res.on("data") for one content fragment: dropped when aborted, otherwise
\* accumulated and passed to onData, which writes it to stdout.
ResOnData(r) ==
  /\ UNCHANGED <<streamVars, parseVars, syncVars, fileVars, clientVars,
                 shell, limits>>
  /\ running
  /\ r \in 1..Len(requests)
  /\ requests[r].net = "streaming"
  /\ requests[r].pos < Len(Responses[requests[r].script])
  /\ requests' = [requests EXCEPT
                    ![r].pos = @ + 1,
                    ![r].accN = IF requests[r].aborted THEN @ ELSE @ + 1]
  /\ ev' = [NoEv EXCEPT !.type = "data", !.req = r,
                        !.wrote = ~requests[r].aborted]
  /\ UNCHANGED <<running, isProcessing, conversationHistory, sigintHandlers,
                 disk, commits, turnStart>>

\* The completion callback of processMessage.
processMessageOnComplete(r, response) ==
  /\ isProcessing' = FALSE
  /\ conversationHistory' =
       PushMessage(conversationHistory,
                   [role |-> "assistant", content |-> response])
  /\ requests' = [requests EXCEPT ![r].net = "ended"]
  /\ ev' = [NoEv EXCEPT !.type = "end", !.req = r, !.ran = TRUE]
  /\ UNCHANGED <<disk>>

\* The test after parsing as it would be if it never held.
NoUpdatesNever(fileUpdates) == FALSE

\* if (fileUpdates.length === 0)
NoUpdates(fileUpdates) == fileUpdates = <<>>

\* The test before the git steps as it would be if it never held.
NothingChangedNever(changedFiles) == FALSE

\* if (changedFiles.length === 0)
NothingChanged(changedFiles) == changedFiles = <<>>

\* The completion callback of createCommit up to its first await: the
\* response is parsed, the files are written, and git diff is started.
createCommitOnComplete(r, response, faults) ==
  \E fileUpdates \in {parseAndUpdateFiles(response)} :
  LET res == ApplyUpdates(fileUpdates, disk, <<>>, faults)
      written == {res.log[k].filename :
                    k \in {n \in 1..Len(res.log) : res.log[n].wrote}}
  IN /\ IF NoUpdates(fileUpdates)
        THEN /\ requests' = [requests EXCEPT ![r].net = "ended",
                                             ![r].pc = "done"]
             /\ ev' = [NoEv EXCEPT !.type = "end", !.req = r,
                                   !.ran = TRUE,
                                   !.report = {"no valid file updates"}]
             /\ UNCHANGED disk
        ELSE /\ disk' = res.disk
             /\ IF NothingChanged(res.changedFiles)
                THEN /\ requests' = [requests EXCEPT ![r].net = "ended",
                                                     ![r].pc = "done"]
                     /\ ev' = [NoEv EXCEPT !.type = "end", !.req = r,
                                           !.ran = TRUE,
                                           !.report = {"no files were changed"}]
                ELSE /\ requests' =
                          [requests EXCEPT ![r].net = "ended",
                                           ![r].pc = "diff",
                                           ![r].changedFiles = res.changedFiles,
                                           ![r].written = written]
                     /\ ev' = [NoEv EXCEPT !.type = "end", !.req = r,
                                           !.ran = TRUE]
     /\ UNCHANGED <<isProcessing, conversationHistory>>

\* res.on("end"): onComplete(accumulatedResponse) unless aborted.
ResOnEnd(r, faults) ==
  /\ UNCHANGED <<streamVars, parseVars, syncVars, fileVars, clientVars,
                 shell, limits>>
  /\ running
  /\ r \in 1..Len(requests)
  /\ requests[r].net = "streaming"
  /\ requests[r].pos = Len(Responses[requests[r].script])
  /\ IF requests[r].aborted
     THEN /\ requests' = [requests EXCEPT ![r].net = "ended"]
          /\ ev' = [NoEv EXCEPT !.type = "end", !.req = r]
          /\ UNCHANGED <<isProcessing, conversationHistory, disk>>
     ELSE IF requests[r].kind = "msg"
          THEN processMessageOnComplete(r, accumulatedResponse(requests[r]))
          ELSE createCommitOnComplete(r, accumulatedResponse(requests[r]),
                                      faults)
  /\ UNCHANGED <<running, sigintHandlers, commits, turnStart>>

\* onError as it would be had processMessage forgotten to reset isProcessing.
onErrorKeepsProcessing(r) ==
  /\ ev' = [NoEv EXCEPT !.type = "error", !.req = r,
                        !.ran = TRUE,
                        !.cancelled = IF requests[r].isCancelled THEN {r} ELSE {},
                        !.report = IF requests[r].isCancelled THEN {}
                                   ELSE {"error"}]
  /\ UNCHANGED isProcessing

\* The error callbacks of processMessage and createCommit: the error is
\* printed unless the turn was cancelled; processMessage resets isProcessing.
onError(r) ==
  /\ ev' = [NoEv EXCEPT !.type = "error", !.req = r,
                        !.ran = TRUE,
                        !.cancelled = IF requests[r].isCancelled THEN {r} ELSE {},
                        !.report = IF requests[r].isCancelled THEN {}
                                   ELSE {"error"}]
  /\ isProcessing' = IF requests[r].kind = "msg" THEN FALSE ELSE isProcessing

\* req.on("error") and res.on("error"): the callback runs unless aborted.
ReqOnError(r) ==
  /\ UNCHANGED <<streamVars, parseVars, syncVars, fileVars, clientVars,
                 shell, limits>>
  /\ running
  /\ r \in 1..Len(requests)
  /\ requests[r].net \in {"sent", "streaming"}
  /\ requests' = [requests EXCEPT ![r].net = "failed"]
  /\ IF requests[r].aborted
     THEN /\ ev' = [NoEv EXCEPT !.type = "error", !.req = r,
                                !.cancelled = {r}]
          /\ UNCHANGED isProcessing
     ELSE onError(r)
  /\ UNCHANGED <<running, conversationHistory, sigintHandlers, disk, commits,
                 turnStart>>

\* await execPromise("git diff HEAD ..."): a failure is thrown out of the
\* async completion callback, which nothing awaits; an unhandled rejection
\* ends the process or only warns, depending on the Node version.
GitDiffExit(r, ok, fatal) ==
  /\ UNCHANGED <<streamVars, parseVars, syncVars, fileVars, clientVars,
                 shell, limits>>
  /\ running
  /\ r \in 1..Len(requests)
  /\ requests[r].pc = "diff"
  /\ ok => ~fatal
  /\ requests' = [requests EXCEPT
                    ![r].pc = IF ok THEN "add" ELSE "rejected",
                    ![r].addIdx = IF ok THEN 1 ELSE @]
  /\ running' = ~fatal
  /\ ev' = [NoEv EXCEPT !.type = "git diff", !.req = r,
                        !.report = IF ok THEN {} ELSE {"unhandled rejection"}]
  /\ UNCHANGED <<isProcessing, conversationHistory, sigintHandlers, disk,
                 commits, turnStart>>

\* The staging command as it would be if it staged the whole working tree.
StagedPathBlanket(q) == "."

\* for (const file of changedFiles) ... git add "${file}"
StagedPath(q) == q.changedFiles[q.addIdx]

\* The staging loop as it would be if a failed git add ended it.
AfterGitAddStopsOnFailure(q, ok) ==
  IF ~ok \/ q.addIdx = Len(q.changedFiles) THEN "message" ELSE "add"

\* The try and catch inside the staging loop: after the git add of an entry,
\* failed or not, the loop goes on to the next entry, and after the last
\* entry to generateCommitMessage.
AfterGitAdd(q, ok) ==
  IF q.addIdx = Len(q.changedFiles) THEN "message" ELSE "add"

\* await execPromise("git add ...") for changedFiles[addIdx]: a failure is
\* printed and the loop goes on.
GitAddExit(r, ok) ==
  /\ UNCHANGED <<streamVars, parseVars, syncVars, fileVars, clientVars,
                 shell, limits>>
  /\ running
  /\ r \in 1..Len(requests)
  /\ requests[r].pc = "add"
  /\ requests' = [requests EXCEPT
                    ![r].addIdx = @ + 1,
                    ![r].pc = AfterGitAdd(requests[r], ok)]
  /\ ev' = [NoEv EXCEPT !.type = "git add", !.req = r,
                        !.path = StagedPath(requests[r]),
                        !.report = IF ok THEN {} ELSE {"error adding file"}]
  /\ UNCHANGED <<running, isProcessing, conversationHistory, sigintHandlers,
                 disk, commits, turnStart>>

\* The output of git diff HEAD for the changed files.
DiffText == "diff"

\* The user message generateCommitMessage gives to callLLM.
generateCommitMessageInput(originalPrompt, diff) ==
  <<"Summarize these changes in a git commit message:", diff>>

\* generateCommitMessage as it would be without its fixed summary.
generateCommitMessageNoFallback(ok) == IF ok THEN "summary" ELSE ""

\* generateCommitMessage: the trimmed reply, or the fixed summary when the
\* request fails.
generateCommitMessage(ok) == IF ok THEN "summary" ELSE "Changes from AI-coder"

\* The commit message as it would be without the prompt section.
commitMessageNoPrompt(summary, originalPrompt) == <<summary>>

\* const commitMessage = summary, blank line, Original prompt:, blank line,
\* originalPrompt.
commitMessage(summary, originalPrompt) ==
  <<summary, "", "Original prompt:", "", originalPrompt>>

\* await generateCommitMessage(diff): callLLM resolves, or fails and the
\* fixed summary is used.
GenerateCommitMessageSettled(r, ok) ==
  /\ UNCHANGED <<streamVars, parseVars, syncVars, fileVars, clientVars,
                 shell, limits>>
  /\ running
  /\ r \in 1..Len(requests)
  /\ requests[r].pc = "message"
  /\ requests' = [requests EXCEPT ![r].pc = "commit",
                                  ![r].summary = generateCommitMessage(ok)]
  /\ ev' = [NoEv EXCEPT !.type = "commit message", !.req = r,
                        !.input = generateCommitMessageInput(Prompts[r],
                                                             DiffText),
                        !.report = IF ok THEN {}
                                   ELSE {"error generating commit message"}]
  /\ UNCHANGED <<running, isProcessing, conversationHistory, sigintHandlers,
                 disk, commits, turnStart>>

\* await execPromise("git commit -F -", commitMessage).
GitCommitExit(r, ok) ==
  /\ UNCHANGED <<streamVars, parseVars, syncVars, fileVars, clientVars,
                 shell, limits>>
  /\ running
  /\ r \in 1..Len(requests)
  /\ requests[r].pc = "commit"
  /\ requests' = [requests EXCEPT ![r].pc = "done"]
  /\ commits' = IF ok THEN commits + 1 ELSE commits
  /\ ev' = [NoEv EXCEPT !.type = "git commit", !.req = r,
                        !.input = commitMessage(requests[r].summary,
                                                Prompts[r]),
                        !.report = IF ok THEN {"commit created"}
                                   ELSE {"error creating git commit"}]
  /\ UNCHANGED <<running, isProcessing, conversationHistory, sigintHandlers,
                 disk, turnStart>>

Init == SessionInit /\ StreamIdle /\ ParseIdle /\ SyncIdle /\ FilesIdle /\ ClientIdle

Next ==
  \/ \E input \in {"msg", "commit", "run"}, script \in 1..Len(Responses) :
       RlOnLine(input, script)
  \/ SigInt
  \/ \E r \in 1..MaxRequests : ResOnResponse(r)
  \/ \E r \in 1..MaxRequests : ResOnData(r)
  \/ \E r \in 1..MaxRequests, faults \in ReplyFaults : ResOnEnd(r, faults)
  \/ \E r \in 1..MaxRequests : ReqOnError(r)
  \/ \E r \in 1..MaxRequests, ok \in BOOLEAN, fatal \in BOOLEAN :
       GitDiffExit(r, ok, fatal)
  \/ \E r \in 1..MaxRequests, ok \in BOOLEAN : GitAddExit(r, ok)
  \/ \E r \in 1..MaxRequests, ok \in BOOLEAN : GenerateCommitMessageSettled(r, ok)
  \/ \E r \in 1..MaxRequests, ok \in BOOLEAN : GitCommitExit(r, ok)

Spec == Init /\ [][Next]_vars

\* Sessions that also run /run commands.
RunSessionInit ==
  /\ running = TRUE
  /\ isProcessing = FALSE
  /\ conversationHistory = <<>>
  /\ requests = <<>>
  /\ sigintHandlers = <<>>
  /\ disk = [p \in {"a.txt"} |-> <<"x">>]
  /\ commits = 0
  /\ shell = [started |-> 0, busy |-> FALSE]
  /\ limits = [requests |-> MaxRunRequests, runs |-> MaxRuns]
  /\ turnStart = <<>>
  /\ ev = NoEv

\* The session starts with no file in context or with a.txt.
RunFilesInit ==
  /\ activeFiles \in {<<>>, <<"a.txt">>}
  /\ fileEv = NoFileEv

InitRun ==
  RunSessionInit /\ StreamIdle /\ ParseIdle /\ SyncIdle /\ RunFilesInit
    /\ ClientIdle

NextRun ==
  \/ Next
  \/ \E ok \in BOOLEAN : RunExit(ok)

SpecRun == InitRun /\ [][NextRun]_vars

\* ------------------------------------------------------ session properties

\* C1: while the model request of a dispatched plain message or /commit is
\* in flight (not completed, failed or cancelled), every input line is
\* rejected with the please-wait notice and dispatches nothing.
C1_LineRejectedWhileInFlight ==
  (ev.type = "line" /\ ev.busy) =>
     (~ev.dispatched /\ "please wait" \in ev.report)

\* C2: a SIGINT delivered while a model request is in flight cancels it and
\* does not end the process, whatever turns came before.
C2_SigIntCancelsAndNeverExits ==
  (ev.type = "sigint" /\ ev.busy) => (running /\ ev.cancelled # {})

\* C3: after the user cancelled a turn, the conversation history equals the
\* history before that turn began.
C3_CancelRestoresHistory ==
  (ev.type = "sigint" /\ running) =>
     \A r \in ev.cancelled : conversationHistory = turnStart[r]

\* C4: once the user has interrupted a request, none of its fragments is
\* written to the output and its completion handler does not run.
C4_NothingAfterInterrupt ==
  (ev.type \in {"data", "end"} /\ requests[ev.req].isCancelled) =>
     (~ev.wrote /\ ~ev.ran)

\* C8: a network error on a request the user did not cancel is printed as an
\* error and not as a cancellation, the request is over and runs no
\* completion step, the process lives, and isProcessing is false unless
\* another message turn is still in flight or a /run command is running; a cancellation, and a late error
\* on a cancelled request, never print an error.
C8_ErrorAndCancelDistinguished ==
  /\ (ev.type = "error" /\ ev.cancelled = {}) =>
        /\ ev.report = {"error"}
        /\ requests[ev.req].net = "failed"
        /\ requests[ev.req].pc = "none"
        /\ running
        /\ requests[ev.req].kind = "msg" => ~isProcessing
        /\ isProcessing =>
             \/ shell.busy
             \/ \E q \in 1..Len(requests) :
                   q # ev.req /\ requests[q].kind = "msg"
                   /\ InFlight(requests[q])
  /\ (ev.type = "error" /\ ev.cancelled # {}) => "error" \notin ev.report
  /\ ev.type = "sigint" => "error" \notin ev.report

\* A second turn fails with a network error after the first was cancelled.
C8_Witness ==
  /\ ev.type = "error" /\ ev.req = 2 /\ ev.report = {"error"}
  /\ requests[1].isCancelled
  /\ requests[2].kind = "msg" /\ ~isProcessing

\* ------------------------------------------------- streamLLM: frame loop
\* Event frames per response.
MaxFrames == 3

\* The wire stream is a sequence of symbols.  An event frame is one line:
\*   "da" "ta: " "{" c1 .. ck "}" LF   a content frame, standing for
\*        data: {"choices":[{"delta":{"content":"c1..ck"}}]}
\*   "da" "ta: " "[DONE]" LF           the end sentinel, data: [DONE]
\*   "da" "ta: " "{" "a" LF            a frame whose JSON is cut short
\* The prefix is two symbols so that a chunk can end inside it.  The symbol
\* "[DONE]" inside a content frame is the text [DONE] in the content.
LF == "LF"
ContentChars == {"a", "b", "[DONE]"}
ContentTexts == {<<>>, <<"a">>, <<"b">>, <<"[DONE]">>}

FrameSet ==
  [kind : {"content"}, text : ContentTexts]
    \cup {[kind |-> "done", text |-> <<>>], [kind |-> "malformed", text |-> <<>>]}

Encode(frame) ==
  CASE frame.kind = "content" -> <<"da", "ta: ", "{">> \o frame.text \o <<"}", LF>>
    [] frame.kind = "done" -> <<"da", "ta: ", "[DONE]", LF>>
    [] OTHER -> <<"da", "ta: ", "{", "a", LF>>

RECURSIVE EncodeAll(_)
EncodeAll(fs) == IF fs = <<>> THEN <<>> ELSE Encode(Head(fs)) \o EncodeAll(Tail(fs))

\* text.split("\n").
RECURSIVE SplitLines(_, _)
SplitLines(text, line) ==
  IF text = <<>> THEN <<line>>
  ELSE IF Head(text) = LF THEN <<line>> \o SplitLines(Tail(text), <<>>)
  ELSE SplitLines(Tail(text), Append(line, Head(text)))

\* line.includes("[DONE]").
IncludesDone(line) == \E i \in 1..Len(line) : line[i] = "[DONE]"

\* line.replace(/^data: /, "").
StripData(line) ==
  IF Len(line) >= 2 /\ line[1] = "da" /\ line[2] = "ta: "
  THEN SubSeq(line, 3, Len(line)) ELSE line

\* JSON.parse(jsonStr) succeeds and json.choices[0].delta is there.
ParsesAsDelta(jsonStr) ==
  /\ Len(jsonStr) >= 2
  /\ jsonStr[1] = "{"
  /\ jsonStr[Len(jsonStr)] = "}"
  /\ \A i \in 2..(Len(jsonStr) - 1) : jsonStr[i] \in ContentChars

\* The content one line of a chunk contributes: nothing for a blank line, a
\* line that includes [DONE], an empty payload, a parse failure (caught) or
\* an empty content.
LineContent(line) ==
  IF line = <<>> \/ IncludesDone(line) THEN <<>>
  ELSE LET jsonStr == StripData(line) IN
       IF jsonStr = <<>> THEN <<>>
       ELSE IF ParsesAsDelta(jsonStr)
            THEN SubSeq(jsonStr, 2, Len(jsonStr) - 1)
            ELSE <<>>

\* The for loop over the lines of one chunk: the fragments passed to onData.
RECURSIVE ChunkFragments(_)
ChunkFragments(lines) ==
  IF lines = <<>> THEN <<>>
  ELSE LET content == LineContent(Head(lines)) IN
       (IF content # <<>> THEN <<content>> ELSE <<>>)
         \o ChunkFragments(Tail(lines))

StreamInit ==
  /\ frames \in UNION {[1..n -> FrameSet] : n \in 0..MaxFrames}
  /\ wire = EncodeAll(frames)
  /\ accumulated = <<>>
  /\ delivered = <<>>
  /\ completed = FALSE
  /\ fullResponse = <<>>
  /\ split = FALSE

\* res.on("data") with the next k symbols of the wire as the chunk.
StreamOnData(k) ==
  /\ ~completed
  /\ k \in 1..Len(wire)
  /\ LET fragments == ChunkFragments(SplitLines(SubSeq(wire, 1, k), <<>>))
     IN /\ accumulated' = accumulated \o Concat(fragments)
        /\ delivered' = delivered \o fragments
  /\ wire' = SubSeq(wire, k + 1, Len(wire))
  /\ split' = (split \/ wire[k] # LF)
  /\ UNCHANGED <<frames, completed, fullResponse>>
  /\ UNCHANGED <<sessionVars, parseVars, syncVars, fileVars, clientVars>>

\* res.on("end"): onComplete(accumulatedResponse).
StreamOnEnd ==
  /\ ~completed
  /\ wire = <<>>
  /\ completed' = TRUE
  /\ fullResponse' = accumulated
  /\ UNCHANGED <<frames, wire, accumulated, delivered, split>>
  /\ UNCHANGED <<sessionVars, parseVars, syncVars, fileVars, clientVars>>

StreamNext ==
  \/ \E k \in 1..Len(wire) : StreamOnData(k)
  \/ StreamOnEnd

InitStream == SessionInit /\ StreamInit /\ ParseIdle /\ SyncIdle /\ FilesIdle /\ ClientIdle

SpecStream == InitStream /\ [][StreamNext]_vars

\* The content of the underlying response: what the non-streaming call
\* returns as choices[0].message.content.
RECURSIVE ContentOf(_)
ContentOf(fs) ==
  IF fs = <<>> THEN <<>>
  ELSE (IF Head(fs).kind = "content" THEN Head(fs).text ELSE <<>>)
         \o ContentOf(Tail(fs))

OnlyContentFrames == \A i \in 1..Len(frames) : frames[i].kind = "content"

\* C5: when every frame is a well-formed content frame and arrives whole,
\* the text given to onComplete is the concatenation of the fragments of
\* all frames in arrival order, whatever the fragments carry.
C5_FullResponseIsConcatenation ==
  (completed /\ OnlyContentFrames /\ ~split) => fullResponse = ContentOf(frames)

\* C6: for a response of well-formed frames (content frames whose text
\* does not contain the sentinel text, and the sentinel), the accumulated
\* result equals the buffered content however the wire is cut into chunks.
C6_ChunkingDoesNotMatter ==
  (/\ completed
   /\ \A i \in 1..Len(frames) :
        frames[i].kind # "malformed" /\ ~IncludesDone(frames[i].text))
     => fullResponse = ContentOf(frames)

\* C7: with frames arriving whole, the sentinel contributes nothing and a
\* frame that fails to parse is skipped: the final text is the content of
\* the well-formed content frames, those after the bad frame included.
C7_BadFrameIsSkipped ==
  (/\ completed
   /\ ~split
   /\ \E i \in 1..Len(frames) :
        /\ frames[i].kind = "malformed"
        /\ \E j \in (i + 1)..Len(frames) : frames[j].kind = "content")
     => fullResponse = ContentOf(frames)

\* ---------------------------------------------- parseAndUpdateFiles alone
\* Segments (prose lines, blank lines, stray delimiters, blocks) per text.
MaxSegments == 3

BlockContents == {<<>>, <<"x">>, <<"x", "", "y">>, <<"x", "">>}

\* A segment is one line, or a block: a filename line, an opener, content
\* lines and a closer.
SegmentSet ==
  [kind : {"line"}, text : {"Fixed the bug", "", " ", Fence},
   opener : {Fence}, content : {<<>>}]
    \cup [kind : {"block"}, text : {"a.py", " b.py"},
          opener : {Fence, TaggedFence}, content : BlockContents]

SegmentLines(seg) ==
  IF seg.kind = "line" THEN <<seg.text>>
  ELSE <<seg.text, seg.opener>> \o seg.content \o <<Fence>>

RECURSIVE TextOf(_)
TextOf(segs) ==
  IF segs = <<>> THEN <<>> ELSE SegmentLines(Head(segs)) \o TextOf(Tail(segs))

ParseInit ==
  /\ segments \in UNION {[1..n -> SegmentSet] : n \in 0..MaxSegments}
  /\ responseText = TextOf(segments)
  /\ parsedUpdates = <<>>
  /\ parsed = FALSE

Parse ==
  /\ ~parsed
  /\ parsedUpdates' = parseAndUpdateFiles(responseText)
  /\ parsed' = TRUE
  /\ UNCHANGED <<segments, responseText>>
  /\ UNCHANGED <<sessionVars, streamVars, syncVars, fileVars, clientVars>>

InitParse == SessionInit /\ StreamIdle /\ ParseInit /\ SyncIdle /\ FilesIdle /\ ClientIdle

ParseNext == Parse

SpecParse == InitParse /\ [][ParseNext]_vars

\* A response made of prose lines, blank lines and well-formed blocks.
WellFormed ==
  \A i \in 1..Len(segments) :
     segments[i].kind = "block" \/ segments[i].text \in {"Fixed the bug", ""}

\* The filenames of the blocks, in document order.
RECURSIVE BlockNames(_)
BlockNames(segs) ==
  IF segs = <<>> THEN <<>>
  ELSE (IF Head(segs).kind = "block" THEN <<Trim(Head(segs).text)>> ELSE <<>>)
         \o BlockNames(Tail(segs))

\* The same response with every tagged opener replaced by a bare one.
Untagged(segs) ==
  [i \in 1..Len(segs) |-> [segs[i] EXCEPT !.opener = Fence]]

\* Every block has at least one content line.
NoEmptyBlock ==
  \A i \in 1..Len(segments) :
     segments[i].kind = "block" => segments[i].content # <<>>

\* C9: a response with N well-formed blocks yields exactly N updates, one
\* per block in document order, and no prose line as a filename.
C9_OneUpdatePerBlockInOrder ==
  (parsed /\ WellFormed /\ NoEmptyBlock) =>
     [i \in 1..Len(parsedUpdates) |-> parsedUpdates[i].filename]
       = BlockNames(segments)

\* C10: a block whose opener carries a language tag yields the same update
\* as the block with a bare opener.
C10_TagIsIgnored ==
  (parsed /\ WellFormed /\ NoEmptyBlock)
     => parsedUpdates = parseAndUpdateFiles(TextOf(Untagged(segments)))

\* C11: every update parseAndUpdateFiles returns has a filename that is
\* trimmed, is not empty and is not a line starting with three backticks.
C11_FilenameIsValid ==
  parsed =>
     \A k \in 1..Len(parsedUpdates) :
        /\ Trim(parsedUpdates[k].filename) = parsedUpdates[k].filename
        /\ parsedUpdates[k].filename # ""
        /\ ~StartsWithFence(parsedUpdates[k].filename)

\* A line that is empty or holds only whitespace.
IsBlank(line) == Trim(line) = ""

\* C12: the content of every update is the text between opener and closer
\* with the whitespace at the very end removed: no content ends in a blank
\* line.
C12_ContentHasNoTrailingWhitespace ==
  parsed =>
     \A k \in 1..Len(parsedUpdates) :
        LET content == parsedUpdates[k].content
        IN content # <<>> => ~IsBlank(content[Len(content)])

\* The lines of the text that start with three backticks.
FenceLines(lines) == {i \in 1..Len(lines) : StartsWithFence(lines[i])}

\* A fenced block needs an opening and a closing delimiter line.
NoFencedBlock == Cardinality(FenceLines(responseText)) < 2

\* C13: a response text without a fenced block yields no update.
C13_NoBlockNoUpdate ==
  (parsed /\ NoFencedBlock) => parsedUpdates = <<>>

\* A text with a filename line, an opener and content, but no closer.
C13_Witness ==
  /\ parsed
  /\ Cardinality(FenceLines(responseText)) = 1
  /\ \E i \in 1..(Len(responseText) - 2) :
        responseText[i] = "Fixed the bug" /\ responseText[i + 1] = Fence
  /\ parsedUpdates = <<>>

\* ----------------------------------------- staging and the empty ChangeSet
\* C19: every path given to git add is an entry of the ChangeSet of its
\* turn and was written to disk by that turn before; nothing else is staged.
C19_StagedPathsAreChanged ==
  ev.type = "git add" =>
     /\ \E k \in 1..Len(requests[ev.req].changedFiles) :
           requests[ev.req].changedFiles[k] = ev.path
     /\ ev.path \in requests[ev.req].written
     /\ ev.path \in DOMAIN disk

\* The write of a.txt failed and b.txt was created: only b.txt is staged.
C19_Witness ==
  /\ ev.type = "git add" /\ ev.path = "b.txt"
  /\ requests[ev.req].changedFiles = <<"b.txt">>
  /\ requests[ev.req].written = {"b.txt"}

\* C20: when the updates of a commit turn change no file, the turn reports
\* that no files were changed and ends; no git diff, git add, commit-message
\* request or git commit is ever issued for a turn whose ChangeSet is empty.
C20_EmptyChangeSetSkipsGit ==
  /\ (/\ ev.type = "end" /\ ev.ran
      /\ requests[ev.req].kind = "commit"
      /\ parseAndUpdateFiles(accumulatedResponse(requests[ev.req])) # <<>>
      /\ requests[ev.req].changedFiles = <<>>)
        => (ev.report = {"no files were changed"}
            /\ requests[ev.req].pc = "done")
  /\ ev.type \in {"git diff", "git add", "commit message", "git commit"} =>
        requests[ev.req].changedFiles # <<>>
  /\ \A r \in 1..Len(requests) :
        requests[r].pc \in {"diff", "add", "message", "commit", "rejected"} =>
           requests[r].changedFiles # <<>>

\* The reply repeats the content a.txt already has.
C20_Witness ==
  /\ ev.type = "end" /\ ev.ran
  /\ requests[ev.req].kind = "commit" /\ requests[ev.req].script = 2
  /\ ev.report = {"no files were changed"}
  /\ requests[ev.req].pc = "done"
  /\ commits = 0

\* ------------------------------------------------- the commit sequence
\* C21: when the reply of a commit turn has no update, the turn reports it
\* and ends: that step writes no file and makes no commit, the process
\* lives, and no git step of the turn ever runs.
C21_NoUpdatesEndsTurn ==
  [][(/\ ev'.type = "end" /\ ev'.ran
      /\ requests'[ev'.req].kind = "commit"
      /\ parseAndUpdateFiles(accumulatedResponse(requests'[ev'.req])) = <<>>)
       => /\ ev'.report = {"no valid file updates"}
          /\ requests'[ev'.req].pc = "done"
          /\ requests'[ev'.req].changedFiles = <<>>
          /\ disk' = disk
          /\ commits' = commits
          /\ running']_vars

\* A commit turn whose reply is prose only has ended.
C21_Witness ==
  /\ ev.type = "end" /\ ev.ran
  /\ requests[ev.req].kind = "commit" /\ requests[ev.req].script = 1
  /\ ev.report = {"no valid file updates"}
  /\ requests[ev.req].pc = "done"

\* C22: every git add of a commit turn has been issued when the diff for
\* the commit message is obtained and when the commit is made.
C22_AddsBeforeDiffAndCommit ==
  ev.type \in {"git diff", "git commit"} =>
     requests[ev.req].addIdx = Len(requests[ev.req].changedFiles) + 1

\* C23: a git add that fails is reported and the staging loop goes on: each
\* git add is for the next entry of the ChangeSet, and the commit message is
\* requested only when every entry has had its git add.
C23_StagingGoesOn ==
  /\ ev.type = "git add" =>
        /\ ev.path = requests[ev.req].changedFiles[requests[ev.req].addIdx - 1]
        /\ running
        /\ requests[ev.req].pc =
             (IF requests[ev.req].addIdx <= Len(requests[ev.req].changedFiles)
              THEN "add" ELSE "message")
  /\ \A r \in 1..Len(requests) :
        requests[r].pc \in {"message", "commit"} =>
           requests[r].addIdx = Len(requests[r].changedFiles) + 1

\* The git add of a.txt failed and the loop is at b.txt.
C23_Witness ==
  /\ ev.type = "git add" /\ ev.path = "a.txt"
  /\ ev.report = {"error adding file"}
  /\ requests[ev.req].changedFiles = <<"a.txt", "b.txt">>
  /\ requests[ev.req].pc = "add" /\ requests[ev.req].addIdx = 2

\* The members of a sequence.
Range(seq) == {seq[k] : k \in 1..Len(seq)}

\* C24: the user input of the commit-message request holds the original
\* request and the diff, and the commit comes after the request settled.
C24_MessageInputIsPromptAndDiff ==
  ev.type = "commit message" =>
     /\ Prompts[ev.req] \in Range(ev.input)
     /\ DiffText \in Range(ev.input)
     /\ requests[ev.req].pc = "commit"

\* C25: when the commit-message request fails the commit is still made, with
\* the fixed summary as its first line.
C25_FallbackSummary ==
  /\ (ev.type = "commit message"
      /\ "error generating commit message" \in ev.report)
        => /\ requests[ev.req].pc = "commit"
           /\ requests[ev.req].summary = "Changes from AI-coder"
           /\ running
  /\ ev.type = "git commit" => ev.input[1] = requests[ev.req].summary

\* The commit was created with the fixed summary.
C25_Witness ==
  /\ ev.type = "git commit" /\ ev.report = {"commit created"}
  /\ requests[ev.req].summary = "Changes from AI-coder"
  /\ ev.input[1] = "Changes from AI-coder"

\* C26: the message given to git commit is the summary, a blank line, the
\* line Original prompt:, a blank line and the original request.
C26_CommitMessageFormat ==
  ev.type = "git commit" =>
     /\ requests[ev.req].summary \in {"summary", "Changes from AI-coder"}
     /\ ev.input = <<requests[ev.req].summary, "", "Original prompt:", "",
                     Prompts[ev.req]>>

\* The second turn of a session commits with the generated summary.
C26_Witness ==
  /\ ev.type = "git commit" /\ ev.req = 2
  /\ ev.input = <<"summary", "", "Original prompt:", "", "p2">>

\* C27: a failing git diff, git add or git commit is caught and reported:
\* it is not an unhandled rejection and the process lives.
C27_GitFailureIsCaught ==
  ev.type \in {"git diff", "git add", "git commit"} =>
     /\ running
     /\ "unhandled rejection" \notin ev.report

\* --------------------------------------------- history and admission
\* s is an initial part of t.
IsPrefix(s, t) == Len(s) <= Len(t) /\ SubSeq(t, 1, Len(s)) = s

\* C28: every step of a session leaves the conversation history as it was
\* or adds messages at its end: the history before the step is an initial
\* part of the history after it.
C28_HistoryOnlyGrowsAtEnd ==
  [][IsPrefix(conversationHistory, conversationHistory')]_vars

\* The message of /run was pushed after the two messages of a turn.
C28_Witness ==
  /\ ev.type = "run exit"
  /\ Len(conversationHistory) = 3
  /\ conversationHistory[2].role = "assistant"
  /\ conversationHistory[3].content[1] = "I ran this command: "

\* C29: the messages sent for a turn are the system prompt, then the
\* conversation history as it was before the turn, then the user message of
\* the turn.
C29_SentMessages ==
  (ev.type = "line" /\ ev.dispatched /\ ev.req > 0) =>
     /\ Len(ev.input) = Len(turnStart[ev.req]) + 2
     /\ ev.input[1].role = "system"
     /\ SubSeq(ev.input, 2, Len(ev.input) - 1) = turnStart[ev.req]
     /\ ev.input[Len(ev.input)].role = "user"
     /\ Prompts[ev.req] \in Range(ev.input[Len(ev.input)].content)

\* C30: a line that arrives while a git subprocess of a commit turn or the
\* subprocess of /run is running is not dispatched.
C30_NoDispatchDuringSubprocess ==
  (ev.type = "line" /\ ev.sub) => ~ev.dispatched

\* ------------------------------------------------ output and /run
\* The fragments the server sends: the texts of the content frames that
\* are not empty, in the order of the frames.
RECURSIVE FragmentsOf(_)
FragmentsOf(fs) ==
  IF fs = <<>> THEN <<>>
  ELSE (IF Head(fs).kind = "content" /\ Head(fs).text # <<>>
        THEN <<Head(fs).text>> ELSE <<>>) \o FragmentsOf(Tail(fs))

\* C31: the fragments written to the output are at all times the first
\* fragments the server sent, in their order, and when the completion
\* handler runs every fragment of the response has been written.
C31_FragmentsWrittenInOrder ==
  /\ IsPrefix(delivered, FragmentsOf(frames))
  /\ completed => delivered = FragmentsOf(frames)

\* C32: the step in which the subprocess of /run exits, with or without
\* an error, adds exactly one message at the end of the history, a user
\* message with the command and its output or its error, and leaves the
\* active files as they are; the step that starts the subprocess changes
\* neither.
C32_RunAddsOneMessage ==
  [][/\ ev'.type = "run exit" =>
          /\ Len(conversationHistory') = Len(conversationHistory) + 1
          /\ IsPrefix(conversationHistory, conversationHistory')
          /\ LET m == conversationHistory'[Len(conversationHistory')]
             IN /\ m.role = "user"
                /\ Commands[shell.started] \in Range(m.content)
                /\ (IF "command failed" \in ev'.report
                    THEN "error.message" ELSE "stdout") \in Range(m.content)
          /\ activeFiles' = activeFiles
     /\ (ev'.type = "line" /\ ev'.dispatched /\ ev'.req = 0) =>
          /\ conversationHistory' = conversationHistory
          /\ activeFiles' = activeFiles]_vars

\* A command that failed has left its message in a session with a.txt in
\* context and an earlier turn in the history.
C32_Witness ==
  /\ ev.type = "run exit" /\ "command failed" \in ev.report
  /\ activeFiles = <<"a.txt">>
  /\ Len(conversationHistory) = 3
  /\ conversationHistory[3] = runCommandMessage("c1", FALSE)

\* ------------------------------------------- interrupts and commit turns
\* The turn of a request is over: its stream has ended or failed and no
\* step of its commit sequence is left.
TurnEnded(q) ==
  q.net \in {"ended", "failed"} /\ q.pc \in {"none", "done", "rejected"}

\* C35: at most one SIGINT listener of a turn is registered, and it is the
\* listener of a turn that is not over.
C35_OneListenerOfALiveTurn ==
  /\ Len(sigintHandlers) <= 1
  /\ \A k \in 1..Len(sigintHandlers) :
        ~TurnEnded(requests[sigintHandlers[k].req])

\* The assistant message processCommit adds.
IsCommittedMessage(m) ==
  m.role = "assistant"
    /\ m.content = <<"I have committed the changes you requested.">>

\* C36: the history holds no more messages saying that the changes were
\* committed than git commits were created.
C36_CommittedMessageFollowsCommit ==
  Cardinality({k \in 1..Len(conversationHistory) :
                 IsCommittedMessage(conversationHistory[k])}) <= commits

\* C37: once a commit turn is cancelled, no later step of it writes a file
\* or creates a commit.
C37_NothingAfterCancelledCommit ==
  [][(/\ ev'.type \in {"end", "git commit"}
      /\ ev'.req \in 1..Len(requests)
      /\ requests[ev'.req].kind = "commit"
      /\ requests[ev'.req].isCancelled)
       => (disk' = disk /\ commits' = commits)]_vars

\* --------------------------------------------------------------- progress
\* A step of the network or of a subprocess.
EnvNext ==
  \/ \E r \in 1..MaxRequests : ResOnResponse(r)
  \/ \E r \in 1..MaxRequests : ResOnData(r)
  \/ \E r \in 1..MaxRequests, faults \in ReplyFaults : ResOnEnd(r, faults)
  \/ \E r \in 1..MaxRequests, ok \in BOOLEAN, fatal \in BOOLEAN :
       GitDiffExit(r, ok, fatal)
  \/ \E r \in 1..MaxRequests, ok \in BOOLEAN : GitAddExit(r, ok)
  \/ \E r \in 1..MaxRequests, ok \in BOOLEAN :
       GenerateCommitMessageSettled(r, ok)
  \/ \E r \in 1..MaxRequests, ok \in BOOLEAN : GitCommitExit(r, ok)
  \/ \E ok \in BOOLEAN : RunExit(ok)

\* Every response that was requested arrives and ends, and every
\* subprocess exits; the user is free to type and to interrupt or not.  A
\* session has finitely many such steps and none of them disables another,
\* so fairness of their disjunction gives each of them its turn.
Fairness == WF_vars(EnvNext)

SpecLive == InitRun /\ [][NextRun]_vars /\ Fairness

\* While the process lives no command leaves it processing for ever: after
\* a line was dispatched the session comes to a state in which it is not
\* processing, or the process has exited.
ProcessingEndsOrProcessExits ==
  (ev.type = "line" /\ ev.dispatched) ~> (~isProcessing \/ ~running)

\* C38: after a line was dispatched the session comes to a state in which
\* it is not processing and the process is there to take the next line,
\* unless the user ended the process with an interrupt.
C38_CommandReturnsToPrompt ==
  (ev.type = "line" /\ ev.dispatched)
     ~> ((~isProcessing /\ running) \/ (~running /\ ev.type = "sigint"))

\* ------------------------------------------- the Update files loop alone
\* Blocks per response.
MaxUpdates == 3

SyncPaths == {"a.txt", "sub/c.txt"}

SyncContents == {<<"x">>, <<"z">>}

SyncBlockSet ==
  [kind : {"block"}, text : SyncPaths, opener : {Fence}, content : SyncContents]

\* keep.txt is a file no response names; a.txt and sub/c.txt may exist.
SyncDisks ==
  {[p \in {"keep.txt"} \cup present |-> IF p = "keep.txt" THEN <<"k">> ELSE <<"x">>] :
     present \in SUBSET SyncPaths}

SyncInit ==
  /\ syncBlocks \in UNION {[1..n -> SyncBlockSet] : n \in 0..MaxUpdates}
  /\ syncUpdates = parseAndUpdateFiles(TextOf(syncBlocks))
  /\ syncStart \in SyncDisks
  /\ syncDisk = syncStart
  /\ syncChanged = <<>>
  /\ syncLog = <<>>
  /\ syncDone = FALSE
  /\ syncFirst = NoSyncFirst

\* let changedFiles = []; for (let update of fileUpdates) { ... }
Sync(faults) ==
  /\ ~syncDone
  /\ LET res == ApplyUpdates(syncUpdates, syncDisk, <<>>, faults)
     IN /\ syncDisk' = res.disk
        /\ syncChanged' = res.changedFiles
        /\ syncLog' = res.log
  /\ syncDone' = TRUE
  /\ UNCHANGED <<syncBlocks, syncUpdates, syncStart, syncFirst>>
  /\ UNCHANGED <<sessionVars, streamVars, parseVars, fileVars, clientVars>>

\* The loop once more over the same updates, on the disk the first pass
\* left, with a new changedFiles.
SyncAgain(faults) ==
  /\ syncDone
  /\ ~syncFirst.done
  /\ syncFirst' =
       [done |-> TRUE,
        clean |-> \A k \in 1..Len(syncLog) : syncLog[k].report # "error",
        wrote |-> {syncLog[k].filename :
                     k \in {n \in 1..Len(syncLog) : syncLog[n].wrote}}]
  /\ syncStart' = syncDisk
  /\ LET res == ApplyUpdates(syncUpdates, syncDisk, <<>>, faults)
     IN /\ syncDisk' = res.disk
        /\ syncChanged' = res.changedFiles
        /\ syncLog' = res.log
  /\ UNCHANGED <<syncBlocks, syncUpdates, syncDone>>
  /\ UNCHANGED <<sessionVars, streamVars, parseVars, fileVars, clientVars>>

InitSync == SessionInit /\ StreamIdle /\ ParseIdle /\ SyncInit /\ FilesIdle /\ ClientIdle

SyncNext ==
  \/ \E faults \in [1..Len(syncUpdates) -> Faults] : Sync(faults)
  \/ \E faults \in [1..Len(syncUpdates) -> Faults] : SyncAgain(faults)

SpecSync == InitSync /\ [][SyncNext]_vars

\* The iterations that wrote the file f.
WritesTo(f) == {k \in 1..Len(syncLog) : syncLog[k].filename = f /\ syncLog[k].wrote}

\* The entries of the ChangeSet that name f.
EntriesOf(f) == {k \in 1..Len(syncChanged) : syncChanged[k] = f}

\* No iteration of the loop ended in its catch block.
NoSyncError == \A k \in 1..Len(syncLog) : syncLog[k].report # "error"

\* C14: when two blocks name the same file, after the loop the file holds
\* the content of the later block and the ChangeSet has one entry for each
\* write of that file.
C14_LaterBlockWins ==
  (syncDone /\ NoSyncError) =>
     \A i, j \in 1..Len(syncUpdates) :
        (/\ i < j
         /\ syncUpdates[i].filename = syncUpdates[j].filename
         /\ \A k \in (j + 1)..Len(syncUpdates) :
               syncUpdates[k].filename # syncUpdates[j].filename)
        => LET f == syncUpdates[j].filename
           IN /\ f \in DOMAIN syncDisk
              /\ syncDisk[f] = syncBlocks[j].content
              /\ Cardinality(EntriesOf(f)) = Cardinality(WritesTo(f))

\* Both blocks of a.txt are written: the later content stays, two entries.
C14_Witness ==
  /\ syncDone
  /\ Len(syncUpdates) = 2
  /\ syncUpdates[1].filename = "a.txt" /\ syncUpdates[2].filename = "a.txt"
  /\ syncUpdates[1].content = <<"z">> /\ syncUpdates[2].content = <<"x">>
  /\ syncLog[1].wrote /\ syncLog[2].wrote
  /\ syncDisk["a.txt"] = <<"x">>
  /\ syncChanged = <<"a.txt", "a.txt">>

\* The paths of the iterations that wrote, in order.
RECURSIVE PathsWritten(_)
PathsWritten(log) ==
  IF log = <<>> THEN <<>>
  ELSE (IF Head(log).wrote THEN <<Head(log).filename>> ELSE <<>>)
         \o PathsWritten(Tail(log))

\* C15: an iteration without an I/O error writes the file and adds its name
\* to the ChangeSet exactly when the file did not exist or held another
\* content; a written file exists afterwards, with its directory; the
\* ChangeSet is the sequence of the paths written.
C15_ChangeSetIsPathsWritten ==
  syncDone =>
     /\ \A k \in 1..Len(syncLog) :
           /\ syncLog[k].report # "error" =>
                 (syncLog[k].wrote <=> ~syncLog[k].identical)
           /\ syncLog[k].wrote =>
                 /\ syncLog[k].filename \in DOMAIN syncDisk
                 /\ DirExists(syncDisk, Dirname(syncLog[k].filename))
                 /\ syncLog[k].report =
                      (IF syncLog[k].fileExists THEN "Updated" ELSE "Created")
     /\ syncChanged = PathsWritten(syncLog)
     /\ NoSyncError =>
           \A f \in DOMAIN syncDisk :
              WritesTo(f) # {} =>
                 syncDisk[f] = syncLog[CHOOSE k \in WritesTo(f) :
                                          \A n \in WritesTo(f) : n <= k].content

\* a.txt already holds x and is skipped, sub/c.txt is created in a new
\* directory, a.txt is then updated.
C15_Witness ==
  /\ syncDone
  /\ Len(syncLog) = 3
  /\ syncLog[1].report = "No changes" /\ syncLog[1].filename = "a.txt"
  /\ syncLog[2].report = "Created" /\ syncLog[2].mkdir
  /\ syncLog[3].report = "Updated" /\ syncLog[3].filename = "a.txt"
  /\ syncChanged = <<"sub/c.txt", "a.txt">>

\* C16: an update whose content the file already holds writes nothing; a
\* pass of such updates leaves the disk as it was and the ChangeSet empty.
C16_IdenticalContentIsSkipped ==
  syncDone =>
     /\ \A k \in 1..Len(syncLog) : syncLog[k].identical => ~syncLog[k].wrote
     /\ (\A k \in 1..Len(syncLog) : syncLog[k].identical) =>
           (syncDisk = syncStart /\ syncChanged = <<>>)

\* Two updates, both with the content the files hold.
C16_Witness ==
  /\ syncDone
  /\ Len(syncLog) = 2
  /\ syncLog[1].identical /\ syncLog[2].identical
  /\ syncLog[1].report = "No changes" /\ syncLog[2].report = "No changes"
  /\ syncDisk = syncStart /\ syncChanged = <<>>

\* The filenames of the update sequence.
UpdatedPaths == {syncUpdates[k].filename : k \in 1..Len(syncUpdates)}

\* C17: the loop deletes no file and changes no file that no update names,
\* whatever the file system does.
C17_OtherFilesUntouched ==
  syncDone =>
     /\ DOMAIN syncStart \subseteq DOMAIN syncDisk
     /\ \A p \in DOMAIN syncStart :
           p \notin UpdatedPaths => syncDisk[p] = syncStart[p]

\* sub/c.txt is written while a.txt and keep.txt, which no update names,
\* stay as they were.
C17_Witness ==
  /\ syncDone
  /\ UpdatedPaths = {"sub/c.txt"}
  /\ WritesTo("sub/c.txt") # {}
  /\ "a.txt" \in DOMAIN syncStart
  /\ syncDisk["a.txt"] = <<"x">> /\ syncDisk["keep.txt"] = <<"k">>

\* C18: an I/O error in one iteration is reported for that file and adds
\* nothing to the ChangeSet; every later update is still processed as
\* usual.
C18_ErrorIsPerFile ==
  syncDone =>
     /\ Len(syncLog) = Len(syncUpdates)
     /\ \A k \in 1..Len(syncLog) :
           /\ syncLog[k].filename = syncUpdates[k].filename
           /\ syncLog[k].report = "error" => ~syncLog[k].wrote
           /\ syncLog[k].report # "error" =>
                 (syncLog[k].wrote <=> ~syncLog[k].identical)
     /\ Len(syncChanged) =
           Cardinality({k \in 1..Len(syncLog) : syncLog[k].wrote})
     /\ \A f \in SyncPaths : Cardinality(EntriesOf(f)) = Cardinality(WritesTo(f))

\* The write of a.txt fails, sub/c.txt is still created.
C18_Witness ==
  /\ syncDone
  /\ Len(syncLog) = 2
  /\ syncLog[1].filename = "a.txt" /\ syncLog[1].report = "error"
  /\ syncLog[2].filename = "sub/c.txt" /\ syncLog[2].report = "Created"
  /\ syncChanged = <<"sub/c.txt">>

\* C40 as stated: after a pass without error, a second pass over the same
\* updates writes nothing and its ChangeSet is empty.
C40_SecondPassChangesNothing ==
  (syncFirst.done /\ syncFirst.clean) =>
     /\ syncChanged = <<>>
     /\ \A k \in 1..Len(syncLog) : ~syncLog[k].wrote
     /\ syncDisk = syncStart

\* No two updates give the same file different contents.
OneContentPerPath ==
  \A i, j \in 1..Len(syncUpdates) :
     syncUpdates[i].filename = syncUpdates[j].filename
        => syncUpdates[i].content = syncUpdates[j].content

\* C40: when no two updates give the same file different contents, then
\* after a pass without error a second pass over the same updates writes
\* nothing, leaves the disk as it is and its ChangeSet is empty.
C40_SecondPassOfConsistentUpdates ==
  (syncFirst.done /\ syncFirst.clean /\ OneContentPerPath) =>
     /\ syncChanged = <<>>
     /\ \A k \in 1..Len(syncLog) : ~syncLog[k].wrote
     /\ syncDisk = syncStart

\* The first pass wrote a.txt and created sub/c.txt; the second pass found
\* both unchanged.
C40_Witness ==
  /\ syncFirst.done /\ syncFirst.clean /\ OneContentPerPath
  /\ syncFirst.wrote = {"a.txt", "sub/c.txt"}
  /\ Len(syncLog) = 3
  /\ \A k \in 1..Len(syncLog) : syncLog[k].report = "No changes"
  /\ syncChanged = <<>>

\* ------------------------------------------------- the file context alone
\* File commands per session.
MaxFileCmds == 3
\* Files named on the command line.
MaxInitialFiles == 2

\* a.txt and b.txt exist; gone.txt does not.
FilePaths == {"a.txt", "b.txt", "gone.txt"}

\* The argument of /drop: digits only (an index) or a file name.
DropArgs ==
  [kind : {"index"}, n : 0..3] \cup [kind : {"name"}, path : FilePaths]

\* startReplSession(initialFiles): activeFiles is a copy of the list given
\* on the command line.
FilesInit ==
  /\ running = TRUE
  /\ isProcessing = FALSE
  /\ conversationHistory = <<>>
  /\ requests = <<>>
  /\ sigintHandlers = <<>>
  /\ disk = [p \in {"a.txt", "b.txt"} |-> IF p = "a.txt" THEN <<"x">> ELSE <<"y">>]
  /\ commits = 0
  /\ shell = [started |-> 0, busy |-> FALSE]
  /\ limits = [requests |-> 0, runs |-> 0]
  /\ turnStart = <<>>
  /\ ev = NoEv
  /\ activeFiles \in UNION {[1..n -> FilePaths] : n \in 0..MaxInitialFiles}
  /\ fileEv = NoFileEv

\* rl.on("line") for /add: addFile(filename).
addFile(filename) ==
  /\ running /\ ~isProcessing
  /\ fileEv.n < MaxFileCmds
  /\ IF filename \notin DOMAIN disk
     THEN /\ fileEv' = [NoFileEv EXCEPT !.type = "add", !.arg = filename,
                                        !.before = activeFiles,
                                        !.report = "File not found",
                                        !.n = fileEv.n + 1]
          /\ UNCHANGED activeFiles
     ELSE IF ~Includes(activeFiles, filename)
     THEN /\ activeFiles' = Append(activeFiles, filename)
          /\ fileEv' = [NoFileEv EXCEPT !.type = "add", !.arg = filename,
                                        !.before = activeFiles,
                                        !.report = "Added",
                                        !.n = fileEv.n + 1]
     ELSE /\ fileEv' = [NoFileEv EXCEPT !.type = "add", !.arg = filename,
                                        !.before = activeFiles,
                                        !.report = "already in context",
                                        !.n = fileEv.n + 1]
          /\ UNCHANGED activeFiles
  /\ UNCHANGED <<sessionVars, streamVars, parseVars, syncVars, clientVars>>

\* rl.on("line") for /drop: dropFile(arg), by index or by name.
dropFile(arg) ==
  /\ running /\ ~isProcessing
  /\ fileEv.n < MaxFileCmds
  /\ LET k == IF arg.kind = "index" THEN arg.n ELSE IndexOf(activeFiles, arg.path)
         found == k >= 1 /\ k <= Len(activeFiles)
     IN /\ activeFiles' = IF found THEN Splice(activeFiles, k) ELSE activeFiles
        /\ fileEv' = [NoFileEv EXCEPT
                        !.type = "drop",
                        !.arg = IF arg.kind = "index" THEN "index" ELSE arg.path,
                        !.before = activeFiles,
                        !.report = IF found THEN "Removed"
                                   ELSE IF arg.kind = "index"
                                   THEN "Invalid file index"
                                   ELSE "File not in context",
                        !.n = fileEv.n + 1]
  /\ UNCHANGED <<sessionVars, streamVars, parseVars, syncVars, clientVars>>

\* readFiles(activeFiles), as processMessage and processCommit call it to
\* build the file context of a turn.
ReadFiles(faults) ==
  /\ running /\ ~isProcessing
  /\ fileEv.n < MaxFileCmds
  /\ activeFiles # <<>>
  /\ faults \in [1..Len(activeFiles) -> ReadFaults]
  /\ LET r == readFiles(activeFiles, disk, faults)
     IN fileEv' = [NoFileEv EXCEPT !.type = "read",
                                   !.before = activeFiles,
                                   !.content = r.content,
                                   !.warnings = r.report,
                                   !.faults = faults,
                                   !.n = fileEv.n + 1]
  /\ UNCHANGED <<sessionVars, streamVars, parseVars, syncVars, clientVars,
                 activeFiles>>

InitFiles == FilesInit /\ StreamIdle /\ ParseIdle /\ SyncIdle /\ ClientIdle

FilesNext ==
  \/ \E filename \in FilePaths : addFile(filename)
  \/ \E arg \in DropArgs : dropFile(arg)
  \/ \E faults \in UNION {[1..n -> ReadFaults] : n \in 1..(MaxInitialFiles + 1)} :
       ReadFiles(faults)

SpecFiles == InitFiles /\ [][FilesNext]_vars

\* C33: no path is twice in the active files, from the start of the session
\* on and after every /add and /drop.
C33_ActiveFilesUnique ==
  \A i, j \in 1..Len(activeFiles) :
     i # j => activeFiles[i] # activeFiles[j]

\* The positions of a list whose file readFiles can read.
ReadablePositions(list, faults) ==
  {k \in 1..Len(list) : list[k] \in DOMAIN disk /\ faults[k] = "none"}

\* C34: the file context is made of the block of every file of the list
\* that exists and can be read, in list order; each other file of the list
\* has its warning, in list order, and the process goes on.
C34_UnreadableFileIsSkipped ==
  fileEv.type = "read" =>
     LET list == fileEv.before
         good == ReadablePositions(list, fileEv.faults)
         positions == [k \in 1..Len(list) |-> k]
         bad == SelectSeq(positions, LAMBDA k : k \notin good)
     IN /\ fileEv.content =
             TrimText(Concat([k \in 1..Len(list) |->
                                IF k \in good
                                THEN FileBlock(list[k], disk[list[k]])
                                ELSE <<>>]))
        /\ Len(fileEv.warnings) = Len(bad)
        /\ \A n \in 1..Len(bad) : fileEv.warnings[n].file = list[bad[n]]
        /\ running

\* a.txt could not be read and gone.txt does not exist: the context is the
\* block of b.txt.
C34_Witness ==
  /\ fileEv.type = "read"
  /\ fileEv.before = <<"a.txt", "gone.txt", "b.txt">>
  /\ fileEv.faults = <<"read", "none", "none">>
  /\ fileEv.content = <<"b.txt", Fence, "y", Fence>>
  /\ Len(fileEv.warnings) = 2

\* --------------------------------------------- the LLMClient variant
\* Queries per session of the LLMClient variant.
MaxClientRequests == 3
\* Content chunks per response.
MaxChunks == 2

\* REPLSession.start of the LLMClient variant: no request was made.
ClientInit ==
  /\ clientRequests = <<>>
  /\ currentRequest = 0
  /\ sessionHistory = <<>>
  /\ clientEv = NoClientEv

\* The requests neither ended, failed nor destroyed.
ClientInFlight ==
  {r \in 1..Len(clientRequests) : clientRequests[r].state = "inflight"}

\* rl.on("line") with a query: handleQuery calls makeRequest, which stores
\* the new request in currentRequest, and awaits it.  Nothing keeps a line
\* from being handled while an earlier query is pending.
handleQuery ==
  /\ Len(clientRequests) < MaxClientRequests
  /\ clientRequests' = Append(clientRequests, [state |-> "inflight", chunks |-> 0])
  /\ currentRequest' = Len(clientRequests) + 1
  /\ clientEv' = [NoClientEv EXCEPT !.type = "query", !.pending = ClientInFlight]
  /\ UNCHANGED sessionHistory
  /\ UNCHANGED <<sessionVars, streamVars, parseVars, syncVars, fileVars>>

\* res.on("data") of makeRequest: the content is added to the response.
ClientResOnData(r) ==
  /\ r \in ClientInFlight
  /\ clientRequests[r].chunks < MaxChunks
  /\ clientRequests' = [clientRequests EXCEPT ![r].chunks = @ + 1]
  /\ clientEv' = [NoClientEv EXCEPT !.type = "data", !.pending = ClientInFlight]
  /\ UNCHANGED <<currentRequest, sessionHistory>>
  /\ UNCHANGED <<sessionVars, streamVars, parseVars, syncVars, fileVars>>

\* res.on("end") of makeRequest: currentRequest = null and the promise
\* resolves; handleQuery pushes the exchange to the history.
ClientResOnEnd(r) ==
  /\ r \in ClientInFlight
  /\ clientRequests' = [clientRequests EXCEPT ![r].state = "ended"]
  /\ currentRequest' = 0
  /\ sessionHistory' =
       Append(sessionHistory, [query |-> r, response |-> clientRequests[r].chunks])
  /\ clientEv' = [NoClientEv EXCEPT !.type = "end", !.pending = ClientInFlight]
  /\ UNCHANGED <<sessionVars, streamVars, parseVars, syncVars, fileVars>>

\* currentRequest.on("error"): currentRequest = null and the promise
\* rejects; handleQuery prints the error.  A request that was destroyed
\* may emit the error too.
ClientReqOnError(r) ==
  /\ r \in 1..Len(clientRequests)
  /\ clientRequests[r].state \in {"inflight", "destroyed"}
  /\ clientRequests' = [clientRequests EXCEPT ![r].state = "failed"]
  /\ currentRequest' = 0
  /\ clientEv' = [NoClientEv EXCEPT !.type = "error", !.pending = ClientInFlight]
  /\ UNCHANGED sessionHistory
  /\ UNCHANGED <<sessionVars, streamVars, parseVars, syncVars, fileVars>>

\* rl.on("SIGINT"): LLMClient.abort() destroys the request currentRequest
\* refers to, if any, and sets currentRequest to null.
LLMClientAbort ==
  /\ clientRequests' =
       IF currentRequest # 0 /\ clientRequests[currentRequest].state = "inflight"
       THEN [clientRequests EXCEPT ![currentRequest].state = "destroyed"]
       ELSE clientRequests
  /\ currentRequest' = 0
  /\ clientEv' = [NoClientEv EXCEPT
                    !.type = "abort",
                    !.pending = ClientInFlight,
                    !.destroyed = IF currentRequest # 0 THEN {currentRequest}
                                  ELSE {}]
  /\ UNCHANGED sessionHistory
  /\ UNCHANGED <<sessionVars, streamVars, parseVars, syncVars, fileVars>>

InitClient ==
  SessionInit /\ StreamIdle /\ ParseIdle /\ SyncIdle /\ FilesIdle /\ ClientInit

ClientNext ==
  \/ handleQuery
  \/ \E r \in 1..MaxClientRequests : ClientResOnData(r)
  \/ \E r \in 1..MaxClientRequests : ClientResOnEnd(r)
  \/ \E r \in 1..MaxClientRequests : ClientReqOnError(r)
  \/ LLMClientAbort

SpecClient == InitClient /\ [][ClientNext]_vars

\* C39: currentRequest is null when no request is in flight and refers to
\* a request in flight when there is one, and abort() destroys every
\* request that is in flight.
C39_CurrentRequestIsTheOneInFlight ==
  /\ IF ClientInFlight = {} THEN currentRequest = 0
     ELSE currentRequest \in ClientInFlight
  /\ clientEv.type = "abort" => clientEv.pending \subseteq clientEv.destroyed

====
